---- MODULE Spec2Model ----
(***************************************************************************)
(* mongootils: a promise-returning connect/disconnect handle around one    *)
(* mongoose connection (src/index.js).                                     *)
(*                                                                         *)
(* The handle's own code is modelled statement by statement.  The driver   *)
(* (mongoose) and the event emitter its connections inherit from are the   *)
(* environment: a connection has a readyState, a table _events of          *)
(* listeners, and moves connecting -> connected (open), connecting ->      *)
(* disconnected (error) and disconnecting -> disconnected (close).  Only   *)
(* the listeners the handle attaches are kept in _events.                  *)
(***************************************************************************)
EXTENDS Integers, Sequences, FiniteSets, TLC

\* Bounds of the model.
NumHandles == 2
MaxConns == 3
MaxPromises == 3
MaxDirect == 2

Handles == 1..NumHandles
ConnIds == 1..MaxConns
\* The connection table has one slot to spare: a createConnection beyond
\* MaxConns lands there and the call is not taken.
Slots == 1..(MaxConns + 1)
Absent == 0
NoValue == "undefined"
\* What the URI codec renders from the fields of a connection never opened.
NullUri == "mongodb://null"
URIs == {"mongodb://a/db"}
Errors == {"err1"}
Events == {"error", "open", "close", "disconnected"}

\* mongoose.Connection.STATES; 0 is the code of disconnected.
STATES ==
  [disconnected |-> 0, connected |-> 1, connecting |-> 2,
   disconnecting |-> 3, uninitialized |-> 99]

StateNames == DOMAIN STATES

StateName(code) == CHOOSE n \in StateNames : STATES[n] = code

VARIABLES handles, conns, numConns, promises, crashed, direct

vars == <<handles, conns, numConns, promises, crashed, direct>>

\* The program state handed from one statement to the next.
World == [handles |-> handles, conns |-> conns, numConns |-> numConns,
          promises |-> promises, crashed |-> crashed]

NoEvents == [e \in Events |-> <<>>]

NewConnection(state) ==
  [readyState |-> state, name |-> NullUri, events |-> NoEvents,
   pendingClose |-> <<>>, closeCbs |-> <<>>]

----------------------------------------------------------------------------
\* is() with 'uninitialized' left to the default branch of the switch.
IsValueOnlyDisconnected(w, h, state) ==
  LET c == w.handles[h].connection IN
  IF state = "disconnected"
  THEN IF c = Absent THEN "true"
       ELSE IF w.conns[c].readyState = STATES[state] THEN "true" ELSE "false"
  ELSE IF c = Absent THEN NoValue
       ELSE IF w.conns[c].readyState = STATES[state] THEN "true" ELSE "false"

\* Mongootils.prototype.is, with the value JavaScript returns: the default
\* branch yields the absent connection itself (undefined) when none is held.
IsValue(w, h, state) ==
  LET c == w.handles[h].connection IN
  IF state \in {"disconnected", "uninitialized"}
  THEN IF c = Absent THEN "true"
       ELSE IF w.conns[c].readyState = STATES[state] THEN "true" ELSE "false"
  ELSE IF c = Absent THEN NoValue
       ELSE IF w.conns[c].readyState = STATES[state] THEN "true" ELSE "false"

\* The truthiness the callers of is() branch on.
Is(w, h, state) == IsValue(w, h, state) = "true"

\* getConnectionURI: absent without a connection, else the URI rendered from
\* the connection's fields (held here as the one descriptor `name`).
GetConnectionURI(w, h) ==
  LET c == w.handles[h].connection IN
  IF c = Absent THEN NoValue ELSE w.conns[c].name

----------------------------------------------------------------------------
\* Promises (bluebird): settled at most once.
NewPromise(kind, h, pre) ==
  [kind |-> kind, h |-> h, pre |-> pre, status |-> "pending",
   valConn |-> Absent, valStr |-> NoValue,
   att |-> Absent, attEnd |-> "none", attErr |-> NoValue,
   cbFired |-> FALSE, cbHeld |-> Absent, cbDisconnected |-> FALSE,
   heldAt |-> Absent, connectedAt |-> FALSE, disconnectedAt |-> FALSE,
   call |-> "none", attached |-> 0, closeRequested |-> FALSE,
   heldBefore |-> Absent, heldAfter |-> Absent,
   connsBefore |-> 0, defaultBefore |-> "none"]

\* resolve(this.connection) of a connect promise; the handle's view at that
\* moment is kept with the promise.
ResolveConn(w, p) ==
  LET h == w.promises[p].h IN
  IF w.promises[p].status # "pending" THEN w
  ELSE [w EXCEPT !.promises[p] =
          [@ EXCEPT !.status = "resolved",
                    !.valConn = w.handles[h].connection,
                    !.heldAt = w.handles[h].connection,
                    !.connectedAt = Is(w, h, "connected"),
                    !.disconnectedAt = Is(w, h, "disconnected")]]

\* resolve(this.uri) of a disconnect promise.
ResolveUri(w, p) ==
  LET h == w.promises[p].h IN
  IF w.promises[p].status # "pending" THEN w
  ELSE [w EXCEPT !.promises[p] =
          [@ EXCEPT !.status = "resolved",
                    !.valStr = w.handles[h].uri,
                    !.heldAt = w.handles[h].connection,
                    !.connectedAt = Is(w, h, "connected"),
                    !.disconnectedAt = Is(w, h, "disconnected")]]

Reject(w, p, err) ==
  IF w.promises[p].status # "pending" THEN w
  ELSE [w EXCEPT !.promises[p] =
          [@ EXCEPT !.status = "rejected", !.valStr = err]]

----------------------------------------------------------------------------
\* The event emitter's table: _events[ev] is the listener itself when one is
\* registered and an array when two or more are.
IsArray(ls) == Len(ls) >= 2

\* length of a registered function: a once() wrapper declares no parameter,
\* a bound handler keeps the parameters of the function it binds.
HandlerArity(cb) ==
  IF cb \in {"onConnectionError", "onDisconnectionError"} THEN 1 ELSE 0

ListenerLength(l) == IF l.once THEN 0 ELSE HandlerArity(l.cb)

\* listeners[ev].length
EventsLength(ls) == IF IsArray(ls) THEN Len(ls) ELSE ListenerLength(ls[1])

\* !listeners || !listeners[ev] || listeners[ev].length === 0
NoListenerSeen(ls) == Len(ls) = 0 \/ EventsLength(ls) = 0

\* addConnectionListener(ev, cb): on() for error, once() for the rest, the
\* handler bound to the handle.
AddConnectionListener(w, h, ev, cb, p) ==
  LET c == w.handles[h].connection
      ls == w.conns[c].events[ev]
      l == [cb |-> cb, h |-> h, p |-> p, once |-> (ev # "error"), bound |-> TRUE]
  IN IF NoListenerSeen(ls)
     THEN [w EXCEPT !.conns[c].events[ev] = Append(ls, l)]
     ELSE w

\* emitter.removeListener(ev, fn): drops the listener that is fn or wraps fn.
\* fn is the function as declared; what was registered is its bound copy.
SameFunction(l, cb, p) == l.cb = cb /\ l.p = p /\ ~l.bound

RemoveListener(ls, cb, p) ==
  SelectSeq(ls, LAMBDA l : ~SameFunction(l, cb, p))

\* removeListeners(ev, cb).  With an array, the forEach callback reads
\* this.connection with `this` undefined (strict mode): a TypeError.
RemoveListeners(w, h, ev, cb, p) ==
  LET c == w.handles[h].connection IN
  IF w.crashed \/ c = Absent THEN w
  ELSE LET ls == w.conns[c].events[ev] IN
       IF Len(ls) = 0 THEN w
       ELSE IF IsArray(ls) THEN [w EXCEPT !.crashed = TRUE]
       ELSE [w EXCEPT !.conns[c].events[ev] = RemoveListener(ls, cb, p)]

\* cleanup of connect()
ConnectCleanup(w, h, p) ==
  LET w1 == RemoveListeners(w, h, "error", "onConnectionError", p)
      w2 == RemoveListeners(w1, h, "open", "onConnectionOpened", p)
  IN RemoveListeners(w2, h, "close", "connectCleanup", p)

\* cleanup of disconnect()
DisconnectCleanup(w, h, p) ==
  LET w1 == RemoveListeners(w, h, "error", "onDisconnectionError", p)
      w2 == RemoveListeners(w1, h, "disconnected", "onConnectionClosed", p)
  IN RemoveListeners(w2, h, "close", "disconnectCleanup", p)

\* One registered handler, called with `this` the handle it was bound to.
RunHandler(w, l, arg) ==
  CASE l.cb = "onConnectionError" -> Reject(w, l.p, arg)
    [] l.cb = "onConnectionOpened" -> ResolveConn(w, l.p)
    [] l.cb = "connectCleanup" -> ConnectCleanup(w, l.h, l.p)
    [] l.cb = "onDisconnectionError" -> Reject(w, l.p, arg)
    [] l.cb = "onConnectionClosed" -> w
    [] l.cb = "disconnectCleanup" -> DisconnectCleanup(w, l.h, l.p)

\* emit(ev, arg): the listeners registered when the event fires are called in
\* order; a once() listener is removed just before it is called; an exception
\* ends the emit.
RECURSIVE EmitFrom(_, _, _, _, _, _)
EmitFrom(w, c, ev, arg, ls, i) ==
  IF i > Len(ls) \/ w.crashed THEN w
  ELSE LET l == ls[i]
           w1 == IF l.once
                 THEN [w EXCEPT !.conns[c].events[ev] =
                         SelectSeq(@, LAMBDA x : x # l)]
                 ELSE w
       IN EmitFrom(RunHandler(w1, l, arg), c, ev, arg, ls, i + 1)

Emit(w, c, ev, arg) == EmitFrom(w, c, ev, arg, w.conns[c].events[ev], 1)

----------------------------------------------------------------------------
\* What the handle sees of its connection before a call.
Held(w, h) ==
  IF w.handles[h].connection = Absent THEN "none"
  ELSE StateName(w.conns[w.handles[h].connection].readyState)

\* Bookkeeping of one call: what it asked of the driver and what it attached,
\* read off the state before (w0) and after (w) the call.
ProviderCall(w0, w) ==
  IF w.numConns # w0.numConns THEN "createConnection"
  ELSE IF \E c \in Slots : /\ w.conns[c].readyState = STATES.connecting
                              /\ w0.conns[c].readyState # STATES.connecting
       THEN "connect"
       ELSE "none"

RECURSIVE SumOver(_, _)
SumOver(f, S) ==
  IF S = {} THEN 0
  ELSE LET x == CHOOSE y \in S : TRUE IN f[x] + SumOver(f, S \ {x})

ListenerCount(w) ==
  SumOver([ce \in Slots \X Events |-> Len(w.conns[ce[1]].events[ce[2]])],
          Slots \X Events)

CloseRequests(w) ==
  SumOver([c \in Slots |->
             Len(w.conns[c].closeCbs) + Len(w.conns[c].pendingClose)], Slots)

Frame(w0, w, h, p) ==
  [w EXCEPT !.promises[p] =
     [@ EXCEPT !.call = ProviderCall(w0, w),
               !.attached = ListenerCount(w) - ListenerCount(w0),
               !.closeRequested = (CloseRequests(w) # CloseRequests(w0)),
               !.heldBefore = w0.handles[h].connection,
               !.heldAfter = w.handles[h].connection,
               !.connsBefore =
                  IF ProviderCall(w0, w) = "none" THEN 0 ELSE w0.numConns,
               !.defaultBefore =
                  IF ProviderCall(w0, w) = "none" THEN "none"
                  ELSE StateName(w0.conns[1].readyState)]]

Commit(w) ==
  /\ handles' = w.handles
  /\ conns' = w.conns
  /\ numConns' = w.numConns
  /\ promises' = w.promises
  /\ crashed' = w.crashed
  /\ UNCHANGED direct

RECURSIVE Repeat(_, _)
Repeat(x, n) == IF n = 0 THEN <<>> ELSE Append(Repeat(x, n - 1), x)

NoHandle ==
  [constructed |-> FALSE, wrapped |-> FALSE, uri |-> NoValue,
   ctorUri |-> NoValue, connection |-> Absent]

\* No handle constructed; mongoose.connections holds the default connection
\* alone, not opened yet.
Init ==
  /\ handles = Repeat(NoHandle, NumHandles)
  /\ \E s \in {STATES.disconnected, STATES.uninitialized} :
       conns = <<NewConnection(s)>> \o
               Repeat(NewConnection(STATES.disconnected), MaxConns)
  /\ numConns = 1
  /\ promises = <<>>
  /\ crashed = FALSE
  /\ direct = 0
----------------------------------------------------------------------------
\* The driver, as the handle uses it.

\* mongoose.connect(uri, options): opens the default connection,
\* mongoose.connections[0].
MongooseConnect(w, uri) ==
  [w EXCEPT !.conns[1].readyState = STATES.connecting, !.conns[1].name = uri]

\* mongoose.createConnection(uri, options): a new connection, appended to
\* mongoose.connections and opening.
CreateConnection(w, uri) ==
  [w EXCEPT !.numConns = @ + 1,
            !.conns[w.numConns + 1] =
               [NewConnection(STATES.connecting) EXCEPT !.name = uri]]

\* connection.close(callback): a connected connection starts closing; one that
\* is still connecting closes once it has opened.
CloseRequest(w, c, cb) ==
  IF w.conns[c].readyState = STATES.connected
  THEN [w EXCEPT !.conns[c].readyState = STATES.disconnecting,
                 !.conns[c].closeCbs = Append(@, cb)]
  ELSE [w EXCEPT !.conns[c].pendingClose = Append(@, cb)]

\* Bookkeeping: the attempts on connection c that this event ends.
RECURSIVE MarkFrom(_, _, _, _, _, _)
MarkFrom(w, c, kind, how, err, p) ==
  IF p > Len(w.promises) THEN w
  ELSE LET w1 == IF /\ w.promises[p].kind = kind
                    /\ w.promises[p].att = c
                    /\ w.promises[p].attEnd = "none"
                    /\ ~w.promises[p].cbFired
                 THEN [w EXCEPT !.promises[p].attEnd = how,
                                !.promises[p].attErr = err]
                 ELSE w
       IN MarkFrom(w1, c, kind, how, err, p + 1)

MarkAttempts(w, c, kind, how, err) == MarkFrom(w, c, kind, how, err, 1)

----------------------------------------------------------------------------
\* new Mongootils(uri, options)
NewFromUri(h, u) ==
  /\ ~crashed
  /\ ~handles[h].constructed
  /\ \A g \in Handles : g < h => handles[g].constructed
  /\ LET w == [World EXCEPT !.handles[h] =
                 [constructed |-> TRUE, wrapped |-> FALSE, uri |-> u,
                  ctorUri |-> u, connection |-> Absent]]
     IN Commit(w)

\* new Mongootils(connection), for a connection of mongoose.connections.
NewFromConnection(h, c) ==
  /\ ~crashed
  /\ ~handles[h].constructed
  /\ \A g \in Handles : g < h => handles[g].constructed
  /\ c <= numConns
  /\ LET w1 == [World EXCEPT !.handles[h] =
                  [constructed |-> TRUE, wrapped |-> TRUE, uri |-> NoValue,
                   ctorUri |-> NoValue, connection |-> c]]
         w == [w1 EXCEPT !.handles[h].uri = GetConnectionURI(w1, h),
                         !.handles[h].ctorUri = GetConnectionURI(w1, h)]
     IN Commit(w)

\* A new connection taken, when the default one is not to be used, among the
\* created connections that are disconnected, and created only if none is.
InitiateReusesDisconnected(w, h, p) ==
  LET uri == w.handles[h].uri
      idle == {c \in 2..w.numConns :
                 w.conns[c].readyState = STATES.disconnected}
      w1 == IF w.numConns = 1 /\ w.conns[1].readyState = 0
            THEN [MongooseConnect(w, uri) EXCEPT !.handles[h].connection = 1]
            ELSE IF idle # {}
            THEN LET c == CHOOSE x \in idle : TRUE
                 IN [w EXCEPT !.conns[c].readyState = STATES.connecting,
                              !.conns[c].name = uri,
                              !.handles[h].connection = c]
            ELSE [CreateConnection(w, uri) EXCEPT
                    !.handles[h].connection = w.numConns + 1]
      w2 == [w1 EXCEPT !.promises[p].att = w1.handles[h].connection]
      w3 == AddConnectionListener(w2, h, "error", "onConnectionError", p)
      w4 == AddConnectionListener(w3, h, "open", "onConnectionOpened", p)
  IN AddConnectionListener(w4, h, "close", "connectCleanup", p)

\* The new connection chosen by the state of the default one alone, however
\* many connections there are.
InitiateIgnoresConnectionCount(w, h, p) ==
  LET uri == w.handles[h].uri
      w1 == IF w.conns[1].readyState = 0
            THEN [MongooseConnect(w, uri) EXCEPT !.handles[h].connection = 1]
            ELSE [CreateConnection(w, uri) EXCEPT
                    !.handles[h].connection = w.numConns + 1]
      w2 == [w1 EXCEPT !.promises[p].att = w1.handles[h].connection]
      w3 == AddConnectionListener(w2, h, "error", "onConnectionError", p)
      w4 == AddConnectionListener(w3, h, "open", "onConnectionOpened", p)
  IN AddConnectionListener(w4, h, "close", "connectCleanup", p)

\* A new connection: the default one if it is the only connection and is
\* disconnected, else a created one; then the three listeners.
Initiate(w, h, p) ==
  LET uri == w.handles[h].uri
      w1 == IF w.numConns = 1 /\ w.conns[1].readyState = 0
            THEN [MongooseConnect(w, uri) EXCEPT !.handles[h].connection = 1]
            ELSE [CreateConnection(w, uri) EXCEPT
                    !.handles[h].connection = w.numConns + 1]
      w2 == [w1 EXCEPT !.promises[p].att = w1.handles[h].connection]
      w3 == AddConnectionListener(w2, h, "error", "onConnectionError", p)
      w4 == AddConnectionListener(w3, h, "open", "onConnectionOpened", p)
  IN AddConnectionListener(w4, h, "close", "connectCleanup", p)

\* connect() without the early return for a connected handle.
ConnectBodyNoConnectedCheck(w, h, p) ==
  IF Is(w, h, "connecting") THEN w ELSE Initiate(w, h, p)

\* connect() without the test for a connection that is connecting.
ConnectBodyNoConnectingCheck(w, h, p) ==
  IF Is(w, h, "connected") THEN ResolveConn(w, p) ELSE Initiate(w, h, p)

\* connect() whose open handler is registered before the state is looked at,
\* so that a call made while connecting listens to the attempt in flight.
ConnectBodyListensWhileConnecting(w, h, p) ==
  IF Is(w, h, "connected") THEN ResolveConn(w, p)
  ELSE IF Is(w, h, "connecting")
       THEN [w EXCEPT !.conns[w.handles[h].connection].events["open"] =
               Append(@, [cb |-> "onConnectionOpened", h |-> h, p |-> p,
                          once |-> TRUE, bound |-> TRUE])]
       ELSE Initiate(w, h, p)

\* The body of connect()'s promise, p being the promise it returns.
ConnectBody(w, h, p) ==
  IF Is(w, h, "connected") THEN ResolveConn(w, p)
  ELSE IF Is(w, h, "connecting") THEN w
  ELSE Initiate(w, h, p)

Connect(h) ==
  /\ ~crashed
  /\ handles[h].constructed
  /\ Len(promises) < MaxPromises
  /\ LET p == Len(promises) + 1
         w0 == [World EXCEPT
                  !.promises = Append(@, NewPromise("connect", h, Held(World, h)))]
         w == ConnectBody(w0, h, p)
     IN /\ w.numConns <= MaxConns
        /\ Commit(Frame(World, w, h, p))

\* The callback disconnect() hands to connection.close: cleanup, clear the
\* reference, resolve with the URI.
CloseCallbackBody(w, h, p) ==
  LET w1 == DisconnectCleanup(w, h, p) IN
  IF w1.crashed THEN w1
  ELSE ResolveUri([w1 EXCEPT !.handles[h].connection = Absent], p)

\* One callback given to close(); cb.h = 0 is the application's own.  What
\* the handle shows once its callback has run is kept with the promise.
CloseCallback(w, cb) ==
  IF w.crashed \/ cb.h = 0 THEN w
  ELSE LET w1 == CloseCallbackBody(w, cb.h, cb.p) IN
       [w1 EXCEPT !.promises[cb.p] =
          [@ EXCEPT !.cbFired = TRUE,
                    !.cbHeld = w1.handles[cb.h].connection,
                    !.cbDisconnected = Is(w1, cb.h, "disconnected")]]

\* The close of a connection in use: three listeners, then close(callback).
StartClose(w, h, p) ==
  LET c == w.handles[h].connection
      w1 == AddConnectionListener(w, h, "error", "onDisconnectionError", p)
      w2 == AddConnectionListener(w1, h, "disconnected", "onConnectionClosed", p)
      w3 == AddConnectionListener(w2, h, "close", "disconnectCleanup", p)
      w4 == [w3 EXCEPT !.promises[p].att = c]
  IN CloseRequest(w4, c, [h |-> h, p |-> p])

\* disconnect() with the early return taken for 'disconnected' alone.
DisconnectBodyOnlyDisconnected(w, h, p) ==
  IF Is(w, h, "disconnected")
  THEN ResolveUri([w EXCEPT !.handles[h].connection = Absent], p)
  ELSE IF Is(w, h, "disconnecting") THEN w
  ELSE StartClose(w, h, p)

\* disconnect() without the test for a connection that is disconnecting.
DisconnectBodyNoDisconnectingCheck(w, h, p) ==
  IF Is(w, h, "disconnected") \/ Is(w, h, "uninitialized")
  THEN ResolveUri([w EXCEPT !.handles[h].connection = Absent], p)
  ELSE StartClose(w, h, p)

\* The body of disconnect()'s promise.
DisconnectBody(w, h, p) ==
  IF Is(w, h, "disconnected") \/ Is(w, h, "uninitialized")
  THEN ResolveUri([w EXCEPT !.handles[h].connection = Absent], p)
  ELSE IF Is(w, h, "disconnecting") THEN w
  ELSE StartClose(w, h, p)

Disconnect(h) ==
  /\ ~crashed
  /\ handles[h].constructed
  /\ Len(promises) < MaxPromises
  /\ LET p == Len(promises) + 1
         w0 == [World EXCEPT
                  !.promises = Append(@, NewPromise("disconnect", h, Held(World, h)))]
         w == DisconnectBody(w0, h, p)
     IN Commit(Frame(World, w, h, p))

\* db.is(state): the query itself.
IsQuery(h, state) ==
  /\ ~crashed
  /\ handles[h].constructed
  /\ IsValue(World, h, state) \in {"true", "false", NoValue}
  /\ UNCHANGED vars

----------------------------------------------------------------------------
\* The driver's events.

\* The connection opens: connected, 'open' emitted, then the close requests
\* that waited for it start.
ProviderOpen(c) ==
  /\ ~crashed
  /\ c <= numConns
  /\ conns[c].readyState = STATES.connecting
  /\ LET w1 == [World EXCEPT !.conns[c].readyState = STATES.connected]
         w2 == MarkAttempts(w1, c, "connect", "open", NoValue)
         w3 == Emit(w2, c, "open", NoValue)
         w == IF w3.crashed \/ w3.conns[c].pendingClose = <<>> THEN w3
              ELSE [w3 EXCEPT !.conns[c].readyState = STATES.disconnecting,
                              !.conns[c].closeCbs = w3.conns[c].pendingClose,
                              !.conns[c].pendingClose = <<>>]
     IN Commit(w)

\* The connection reports an error.  A connect attempt that fails leaves the
\* connection disconnected before 'error' is emitted.
ProviderError(c, err) ==
  /\ ~crashed
  /\ c <= numConns
  /\ conns[c].readyState \in
       {STATES.connecting, STATES.connected, STATES.disconnecting}
  /\ LET w == IF conns[c].readyState = STATES.connecting
              THEN LET w1 == [World EXCEPT
                                !.conns[c].readyState = STATES.disconnected]
                       w2 == MarkAttempts(w1, c, "connect", "error", err)
                       w3 == Emit(w2, c, "disconnected", NoValue)
                   IN Emit(w3, c, "error", err)
              ELSE IF conns[c].readyState = STATES.disconnecting
              THEN Emit(MarkAttempts(World, c, "disconnect", "error", err),
                        c, "error", err)
              ELSE Emit(World, c, "error", err)
     IN Commit(w)

RECURSIVE RunCloseCallbacks(_, _, _)
RunCloseCallbacks(w, cbs, i) ==
  IF i > Len(cbs) THEN w
  ELSE RunCloseCallbacks(CloseCallback(w, cbs[i]), cbs, i + 1)

\* The close completes: disconnected, 'disconnected' and 'close' emitted,
\* then the callbacks given to close().
ProviderClosed(c) ==
  /\ ~crashed
  /\ c <= numConns
  /\ conns[c].readyState = STATES.disconnecting
  /\ LET cbs == conns[c].closeCbs
         w1 == [World EXCEPT !.conns[c].readyState = STATES.disconnected,
                             !.conns[c].closeCbs = <<>>]
         w2 == Emit(w1, c, "disconnected", NoValue)
         w3 == Emit(w2, c, "close", NoValue)
         w == RunCloseCallbacks(w3, cbs, 1)
     IN Commit(w)

\* mongoose.connect(uri) called by the application itself, as the tests do.
DirectConnect(u) ==
  /\ ~crashed
  /\ conns[1].readyState \in {STATES.disconnected, STATES.uninitialized}
  /\ direct < MaxDirect
  /\ LET w == MongooseConnect(World, u)
     IN /\ handles' = w.handles
        /\ conns' = w.conns
        /\ numConns' = w.numConns
        /\ promises' = w.promises
        /\ crashed' = w.crashed
        /\ direct' = direct + 1

\* connection.close(callback) called by the application itself.
DirectClose(c) ==
  /\ ~crashed
  /\ c <= numConns
  /\ conns[c].readyState = STATES.connected
  /\ direct < MaxDirect
  /\ LET w == CloseRequest(World, c, [h |-> 0, p |-> 0])
     IN /\ handles' = w.handles
        /\ conns' = w.conns
        /\ numConns' = w.numConns
        /\ promises' = w.promises
        /\ crashed' = w.crashed
        /\ direct' = direct + 1

Next ==
  \/ \E h \in Handles, u \in URIs : NewFromUri(h, u)
  \/ \E h \in Handles, c \in ConnIds : NewFromConnection(h, c)
  \/ \E h \in Handles : Connect(h)
  \/ \E h \in Handles : Disconnect(h)
  \/ \E h \in Handles, s \in StateNames : IsQuery(h, s)
  \/ \E c \in ConnIds : ProviderOpen(c)
  \/ \E c \in ConnIds, e \in Errors : ProviderError(c, e)
  \/ \E c \in ConnIds : ProviderClosed(c)
  \/ \E u \in URIs : DirectConnect(u)
  \/ \E c \in ConnIds : DirectClose(c)

Spec == Init /\ [][Next]_vars
----------------------------------------------------------------------------
\* The calls made so far, by kind and by what the handle held when called.
Calls(kind, pres) ==
  {p \in DOMAIN promises : promises[p].kind = kind /\ promises[p].pre \in pres}

Closed == {"none", "disconnected", "uninitialized"}

\* C1: whenever a connect() promise is resolved, the value is the connection
\* the handle holds at that moment, it is not absent, is('connected') is true
\* and is('disconnected') is false.
C1_ResolvedConnectIsConnected ==
  \A p \in Calls("connect", StateNames \cup {"none"}) :
    promises[p].status = "resolved" =>
      /\ promises[p].valConn = promises[p].heldAt
      /\ promises[p].valConn # Absent
      /\ promises[p].connectedAt
      /\ ~promises[p].disconnectedAt

\* C2: a connect() made while uninitialized or disconnected settles with the
\* attempt it started: resolved once that connection has emitted open,
\* rejected once it has emitted error.
C2_AttemptSettlesPromise ==
  \A p \in Calls("connect", Closed) :
    /\ promises[p].attEnd = "open" => promises[p].status = "resolved"
    /\ promises[p].attEnd = "error" => promises[p].status = "rejected"

\* C3: an error event during a connect attempt rejects the promise of the
\* connect() that started the attempt with the emitted error, and the promise
\* is not resolved.
C3_ErrorRejectsConnect ==
  \A p \in Calls("connect", StateNames \cup {"none"}) :
    promises[p].attEnd = "error" =>
      /\ promises[p].status = "rejected"
      /\ promises[p].valStr = promises[p].attErr

\* C4: when the close callback of a disconnect() called on a connected
\* connection has fired, the reference is absent, is('disconnected') is true,
\* the promise is resolved with the URI stored at construction, and uri is
\* the URI stored at construction.
C4_CloseCallbackResolves ==
  /\ \A h \in Handles : handles[h].uri = handles[h].ctorUri
  /\ \A p \in Calls("disconnect", {"connected"}) :
       promises[p].cbFired =>
         /\ promises[p].cbHeld = Absent
         /\ promises[p].cbDisconnected
         /\ promises[p].status = "resolved"
         /\ promises[p].valStr = handles[promises[p].h].ctorUri

\* C5: an error event emitted between the close request of a disconnect()
\* called on a connected connection and the completion of the close rejects
\* that disconnect()'s promise with the emitted error.
C5_ErrorRejectsDisconnect ==
  \A p \in Calls("disconnect", {"connected"}) :
    promises[p].attEnd = "error" =>
      /\ promises[p].status = "rejected"
      /\ promises[p].valStr = promises[p].attErr

\* C6: connect() on a connected handle resolves at once with the held
\* connection, calls neither connect nor createConnection, keeps the
\* reference, attaches no listener and asks for no close.
C6_ConnectWhenConnected ==
  \A p \in Calls("connect", {"connected"}) :
    /\ promises[p].status = "resolved"
    /\ promises[p].valConn = promises[p].heldBefore
    /\ promises[p].heldAfter = promises[p].heldBefore
    /\ promises[p].call = "none"
    /\ promises[p].attached = 0
    /\ ~promises[p].closeRequested

\* The attempt of an earlier connect() of the same handle opened the
\* connection held when p was called.
SelfConnected(p) ==
  \E q \in 1..(p - 1) :
    /\ promises[q].kind = "connect"
    /\ promises[q].h = promises[p].h
    /\ promises[q].att = promises[p].heldBefore

\* C6 reached both ways: by a handle that connected itself and by a handle
\* constructed around a connected connection.
C6_Witness ==
  /\ \E p \in Calls("connect", {"connected"}) : SelfConnected(p)
  /\ \E p \in Calls("connect", {"connected"}) : ~SelfConnected(p)

\* C7: disconnect() on a handle that holds no connection, or one that reports
\* disconnected or uninitialized, resolves at once with the stored URI, leaves
\* the reference absent, asks for no close and attaches no listener.
C7_DisconnectWhenClosed ==
  \A p \in Calls("disconnect", Closed) :
    /\ promises[p].status = "resolved"
    /\ promises[p].valStr = handles[promises[p].h].ctorUri
    /\ promises[p].heldAfter = Absent
    /\ ~promises[p].closeRequested
    /\ promises[p].attached = 0
    /\ promises[p].call = "none"

\* C7 reached in its three cases: no connection, a disconnected one, an
\* uninitialized one.
C7_Witness ==
  /\ Calls("disconnect", {"none"}) # {}
  /\ Calls("disconnect", {"disconnected"}) # {}
  /\ Calls("disconnect", {"uninitialized"}) # {}

\* The listeners of handle h registered for ev on connection c.
Attached(c, ev, h) ==
  {i \in DOMAIN conns[c].events[ev] : conns[c].events[ev][i].h = h}

\* C8: a connection carries at most one listener attached by a handle for
\* each event name.
C8_OneListenerPerEvent ==
  \A c \in ConnIds, ev \in Events, h \in Handles :
    Cardinality(Attached(c, ev, h)) <= 1

\* C9: is(state) is true, for disconnected and uninitialized, iff no
\* connection is held or the held one reports that state; for connecting,
\* connected and disconnecting, iff a connection is held and reports that state.
C9_IsMatchesReadyState ==
  \A h \in Handles, s \in StateNames :
    LET c == handles[h].connection
        reports == IF c = Absent THEN FALSE ELSE conns[c].readyState = STATES[s]
    IN Is(World, h, s) <=>
         IF s \in {"disconnected", "uninitialized"}
         THEN c = Absent \/ reports
         ELSE c # Absent /\ reports

\* C9 with both kinds of answer at once: a handle without connection and a
\* handle whose connection is connected.
C9_Witness ==
  \E g \in Handles, h \in Handles :
    /\ handles[g].constructed
    /\ handles[g].connection = Absent
    /\ Is(World, g, "uninitialized")
    /\ ~Is(World, g, "connected")
    /\ handles[h].connection # Absent
    /\ Is(World, h, "connected")
    /\ ~Is(World, h, "disconnected")

\* C10: connect() calls the driver and replaces the reference only when the
\* handle is uninitialized or disconnected; with a connecting, connected or
\* disconnecting connection it calls nothing and keeps the reference.
C10_ConnectOnlyWhenClosed ==
  \A p \in Calls("connect", {"connecting", "connected", "disconnecting"}) :
    /\ promises[p].call = "none"
    /\ promises[p].heldAfter = promises[p].heldBefore

\* C11: connect() called while the held connection is connecting calls
\* neither connect nor createConnection, keeps the reference and attaches no
\* listener.
C11_ConnectWhileConnecting ==
  \A p \in Calls("connect", {"connecting"}) :
    /\ promises[p].call = "none"
    /\ promises[p].heldAfter = promises[p].heldBefore
    /\ promises[p].attached = 0

\* C11 reached both ways: while the handle's own attempt is in flight, and
\* on a handle constructed around a connection that is connecting.
C11_Witness ==
  /\ \E p \in Calls("connect", {"connecting"}) : SelfConnected(p)
  /\ \E p \in Calls("connect", {"connecting"}) : ~SelfConnected(p)

InFlight(p) ==
  {q \in 1..(p - 1) : /\ promises[q].kind = "connect"
                      /\ promises[q].h = promises[p].h
                      /\ promises[q].att = promises[p].heldBefore}

Requested(c) ==
  {p \in Calls("disconnect", StateNames) :
     /\ promises[p].closeRequested
     /\ promises[p].att = c
     /\ \/ \E i \in DOMAIN conns[c].pendingClose : conns[c].pendingClose[i].p = p
        \/ \E i \in DOMAIN conns[c].closeCbs : conns[c].closeCbs[i].p = p}

\* C13, as stated: disconnect() called while the held connection is
\* disconnecting issues no close request, attaches no listener and keeps the
\* reference; and whatever the number of disconnect() calls, a connection has
\* at most one close request issued to it per session.
C13_OneCloseRequestPerSession ==
  /\ \A p \in Calls("disconnect", {"disconnecting"}) :
       /\ ~promises[p].closeRequested
       /\ promises[p].attached = 0
       /\ promises[p].heldAfter = promises[p].heldBefore
  /\ \A c \in ConnIds : Cardinality(Requested(c)) <= 1

\* C13, amended: the same frame for a call made while disconnecting; and at
\* most one of the close requests outstanding on a connection was issued by a
\* disconnect() called while the connection was connected.
C13_DisconnectWhileDisconnecting ==
  /\ \A p \in Calls("disconnect", {"disconnecting"}) :
       /\ ~promises[p].closeRequested
       /\ promises[p].attached = 0
       /\ promises[p].heldAfter = promises[p].heldBefore
       /\ promises[p].call = "none"
  /\ \A c \in ConnIds :
       Cardinality({p \in Requested(c) : promises[p].pre = "connected"}) <= 1

\* C13 reached: a disconnect() that closed a connected connection, followed
\* by two more on the same connection while it is disconnecting, one of them
\* by another handle.
C13_Witness ==
  \E p \in Calls("disconnect", {"connected"}) :
    /\ p \in Requested(promises[p].att)
    /\ \E q \in Calls("disconnect", {"disconnecting"}),
          r \in Calls("disconnect", {"disconnecting"}) :
         /\ promises[q].heldBefore = promises[p].att
         /\ promises[r].heldBefore = promises[p].att
         /\ promises[q].h = promises[p].h
         /\ promises[r].h # promises[p].h

\* The connect() calls that initiated a connection.
Initiated == {p \in Calls("connect", StateNames \cup {"none"}) :
                promises[p].call # "none"}

\* What C14 says of call p, `state` being the state the default connection
\* must be in to be used: mongoose.connect and the default connection held
\* iff it was the only connection and in that state, else createConnection
\* and the created connection held.
DefaultIff(p, state) ==
  LET only == /\ promises[p].connsBefore = 1
              /\ promises[p].defaultBefore = state
  IN /\ only <=> (promises[p].call = "connect" /\ promises[p].heldAfter = 1)
     /\ ~only => /\ promises[p].call = "createConnection"
                 /\ promises[p].heldAfter = promises[p].connsBefore + 1

\* C14, as stated: a connect() that initiates a connection activates and
\* holds the default connection iff it is the only connection and is
\* uninitialized; otherwise it creates and holds a new connection.
C14_DefaultIffUninitialized ==
  \A p \in Initiated : DefaultIff(p, "uninitialized")

\* C14, amended: the same with the default connection disconnected
\* (readyState 0) in place of uninitialized.
C14_DefaultIffDisconnected ==
  \A p \in Initiated : DefaultIff(p, "disconnected")

\* C14 on both sides: a call that activated the default connection, a call
\* that created one because the only connection was not disconnected, and a
\* call that created one because there were two connections, the default one
\* disconnected.
C14_Witness ==
  /\ \E p \in Initiated : promises[p].call = "connect"
  /\ \E p \in Initiated : /\ promises[p].call = "createConnection"
                            /\ promises[p].connsBefore = 1
  /\ \E p \in Initiated : /\ promises[p].call = "createConnection"
                            /\ promises[p].connsBefore = 2
                            /\ promises[p].defaultBefore = "disconnected"

\* The listeners that call p attached and that are still registered, as
\* (connection, event, position).
Registered(p) ==
  {x \in ConnIds \X Events \X (1..MaxPromises) :
     /\ x[3] \in DOMAIN conns[x[1]].events[x[2]]
     /\ conns[x[1]].events[x[2]][x[3]].p = p}

\* C15: once the attempt of a connect() has ended, by open or by error, none
\* of the error, open and close listeners the call attached is registered.
C15_NoListenerAfterAttempt ==
  \A p \in Calls("connect", StateNames \cup {"none"}) :
    promises[p].attEnd # "none" => Registered(p) = {}

\* C16: when a disconnect() that issued a close request is resolved, the
\* connection it closed carries no error, disconnected or close listener
\* attached by the handle.
C16_NoListenerAfterDisconnect ==
  \A p \in Calls("disconnect", StateNames) :
    (promises[p].closeRequested /\ promises[p].status = "resolved") =>
      \A ev \in {"error", "disconnected", "close"} :
        Attached(promises[p].att, ev, promises[p].h) = {}

\* The handles are all constructed from URIs, two at least, and the
\* application has left the driver to them.
UriHandlesOnly ==
  /\ direct = 0
  /\ \A h \in Handles : ~handles[h].wrapped
  /\ Cardinality({h \in Handles : handles[h].constructed}) >= 2

\* The connections that two handles hold at once.
Shared ==
  {c \in ConnIds : \E g \in Handles, h \in Handles :
     g # h /\ handles[g].connection = c /\ handles[h].connection = c}

\* C17, as stated: with handles constructed from URIs, no connection is held
\* by two handles at the same time.
C17_NoSharedConnection == UriHandlesOnly => Shared = {}

\* C17, amended: with handles constructed from URIs, no connection other than
\* the default one, mongoose.connections[0], is held by two handles at the
\* same time.
C17_OnlyDefaultShared == UriHandlesOnly => Shared \subseteq {1}

\* C17 with two handles at work at once, each on a connection created for it,
\* one of them having failed and connected again.
C17_Witness ==
  /\ UriHandlesOnly
  /\ \E g \in Handles, h \in Handles :
       /\ handles[g].connection > 1
       /\ handles[h].connection > 1
       /\ handles[g].connection # handles[h].connection
       /\ conns[handles[h].connection].readyState = STATES.connected
  /\ \E p \in Calls("connect", {"disconnected"}) :
       promises[p].call = "createConnection"

\* C18: a step that leaves a handle without the connection it held leaves
\* that connection disconnected or uninitialized: the reference is dropped
\* by disconnect() on a closed connection or by the completion of the close
\* of that very connection, never while it is connecting or connected.
C18_NeverDropsLiveConnection ==
  [][\A h \in Handles :
       (handles[h].connection # Absent /\ handles'[h].connection = Absent) =>
         conns'[handles[h].connection].readyState \in
           {STATES.disconnected, STATES.uninitialized}]_vars

\* The connect() calls of two different handles that each started an attempt
\* on the default connection.
OnSharedDefault ==
  {p \in Initiated :
     /\ promises[p].att = 1
     /\ \E q \in Initiated : /\ promises[q].att = 1
                              /\ promises[q].h # promises[p].h}

\* C19: when two handles have each started an attempt on the default
\* connection, each attempt's promise is settled by the open or error event
\* that ends the attempt, and every registered handler settles a promise of
\* the handle it is bound to.
C19_NoCrossHandleInterference ==
  /\ \A p \in OnSharedDefault :
       /\ promises[p].attEnd = "open" => promises[p].status = "resolved"
       /\ promises[p].attEnd = "error" => promises[p].status = "rejected"
  /\ \A c \in ConnIds, ev \in Events :
       \A i \in DOMAIN conns[c].events[ev] :
         promises[conns[c].events[ev][i].p].h = conns[c].events[ev][i].h

====
